---- MODULE Spec2Model ----
(***************************************************************************)
(* BtRust (src/main.rs): orchestration of btrfs-find-root / btrfs restore  *)
(* for file recovery.  The model covers main's precondition checks, the    *)
(* list / dry-run / recover flows, root discovery, regex construction,     *)
(* the diagnostic-line processor and the temp-file cleanup.                *)
(*                                                                         *)
(* Text is modelled as sequences of one-character strings, so substring    *)
(* tests, whitespace splitting, trimming and byte-wise ordering are        *)
(* computed, not assumed.  An Option<T> is <<>> (None) or <<x>> (Some).    *)
(***************************************************************************)
EXTENDS Integers, Sequences, FiniteSets, Bags, TLC

VARIABLES
    isRoot,           \* Uid::effective().is_root()
    deviceExists,     \* Path::new(device).exists()
    outKind,          \* what args.output names: "missing", "file" or "dir"
    mtab,             \* /etc/mtab: <<>> unreadable (None) or <<lines>>
    device,           \* args.device
    list,             \* args.list : Option<u8>
    level,            \* args.level
    dry_run,          \* args.dry_run
    paths,            \* args.paths
    pc,               \* position in main
    diagnostic,       \* the message printed before exit(1)
    regex,            \* perform_recovery's local `regex`
    discovered,       \* bag of identifiers pushed to `roots` before the sort
    roots,            \* generate_roots' returned Vec, as numbers
    idx,              \* position of the `for root in roots` loop
    log,              \* external invocations, cleaner runs and messages, in order
    outDir,           \* output directory tree: [zero, data] file counts
    outDir0,          \* the output directory tree when the run started
    rootsFileExists,  \* /tmp/btrfsroots.tmp exists
    rootsFile,        \* its content (lines), meaningful when it exists
    tmpFileExists,    \* /tmp/undeleter.tmp exists
    stderr,           \* stderr lines of the latest listing restore invocation
    printed           \* the paths process_and_display_files printed for it

vars == <<isRoot, deviceExists, outKind, mtab, device, list, level, dry_run,
          paths, pc, diagnostic, regex, discovered, roots, idx, log, outDir,
          outDir0, rootsFileExists, rootsFile, tmpFileExists, stderr, printed>>

----------------------------------------------------------------------------
(* Bounds of the model.                                                    *)

\* longest discovery output (lines of btrfs-find-root stdout)
MaxDiscLines == 3
\* longest diagnostic output (lines of btrfs restore stderr) in SpecExtract
MaxDiagLines == 3
\* longest path list handed to build_regex in SpecRegex
MaxPaths == 3

----------------------------------------------------------------------------
(* Text helpers: the std library calls the program makes.                  *)

\* byte values of the characters the model's texts use (u8 ordering of str)
Ascii ==
    (" " :> 32) @@ ("$" :> 36) @@ ("(" :> 40) @@ (")" :> 41) @@ ("*" :> 42) @@ ("." :> 46) @@
    ("/" :> 47) @@ ("0" :> 48) @@ ("1" :> 49) @@ ("2" :> 50) @@ ("3" :> 51) @@
    ("4" :> 52) @@ ("5" :> 53) @@ ("6" :> 54) @@ ("7" :> 55) @@ ("8" :> 56) @@
    ("9" :> 57) @@ (":" :> 58) @@ ("R" :> 82) @@ ("W" :> 87) @@ ("^" :> 94) @@
    ("a" :> 97) @@ ("b" :> 98) @@ ("c" :> 99) @@ ("d" :> 100) @@
    ("e" :> 101) @@ ("g" :> 103) @@ ("i" :> 105) @@ ("k" :> 107) @@
    ("l" :> 108) @@ ("m" :> 109) @@ ("n" :> 110) @@ ("o" :> 111) @@
    ("r" :> 114) @@ ("s" :> 115) @@ ("t" :> 116) @@ ("v" :> 118) @@
    ("x" :> 120) @@ ("|" :> 124)

\* char::is_whitespace, on the model's alphabet
IsWhitespace(c) == c = " "

\* char::is_digit(10)
IsDigit(c) == Ascii[c] >= Ascii["0"] /\ Ascii[c] <= Ascii["9"]

\* str::contains(pat)
Contains(s, pat) ==
    \E i \in 0..(Len(s) - Len(pat)) : SubSeq(s, i + 1, i + Len(pat)) = pat

\* str::split_whitespace: the maximal runs of non-whitespace characters
RECURSIVE SplitFrom(_, _, _)
SplitFrom(s, i, cur) ==
    IF i > Len(s)
    THEN IF cur = <<>> THEN <<>> ELSE <<cur>>
    ELSE IF IsWhitespace(s[i])
         THEN IF cur = <<>>
              THEN SplitFrom(s, i + 1, <<>>)
              ELSE <<cur>> \o SplitFrom(s, i + 1, <<>>)
         ELSE SplitFrom(s, i + 1, Append(cur, s[i]))

SplitWhitespace(s) == SplitFrom(s, 1, <<>>)

\* Iterator::nth(n), zero-based, as an Option
Nth(seq, n) == IF n + 1 <= Len(seq) THEN <<seq[n + 1]>> ELSE <<>>

\* Ord for str: byte-wise lexicographic, a proper prefix first
RECURSIVE StrLess(_, _)
StrLess(a, b) ==
    IF a = <<>> THEN b # <<>>
    ELSE IF b = <<>> THEN FALSE
    ELSE IF Ascii[Head(a)] < Ascii[Head(b)] THEN TRUE
    ELSE IF Ascii[Head(a)] > Ascii[Head(b)] THEN FALSE
    ELSE StrLess(Tail(a), Tail(b))

\* Vec<String>::sort(): an insertion sort by Ord for str
RECURSIVE InsertString(_, _)
InsertString(x, sorted) ==
    IF sorted = <<>> THEN <<x>>
    ELSE IF StrLess(x, Head(sorted))
         THEN <<x>> \o sorted
         ELSE <<Head(sorted)>> \o InsertString(x, Tail(sorted))

RECURSIVE SortStrings(_)
SortStrings(files) ==
    IF files = <<>> THEN <<>>
    ELSE InsertString(files[Len(files)],
                      SortStrings(SubSeq(files, 1, Len(files) - 1)))

\* no dedup at all
Dedup_none(seq) == seq

\* Vec::dedup(): drops every element equal to its predecessor
RECURSIVE Dedup(_)
Dedup(seq) ==
    IF Len(seq) <= 1 THEN seq
    ELSE IF seq[1] = seq[2]
         THEN Dedup(Tail(seq))
         ELSE <<seq[1]>> \o Dedup(Tail(seq))

\* [String]::join(sep)
RECURSIVE Join(_, _)
Join(parts, sep) ==
    IF parts = <<>> THEN <<>>
    ELSE IF Len(parts) = 1 THEN parts[1]
    ELSE parts[1] \o sep \o Join(Tail(parts), sep)

\* strip_prefix-like: one leading c at most
TrimStartOnce(s, c) == IF s # <<>> /\ Head(s) = c THEN Tail(s) ELSE s

\* str::trim_start_matches(c)
RECURSIVE TrimStartMatches(_, _)
TrimStartMatches(s, c) ==
    IF s # <<>> /\ Head(s) = c THEN TrimStartMatches(Tail(s), c) ELSE s

\* str::trim_matches(|c| !c.is_digit(10)): non-digits off both ends only
RECURSIVE TrimNonDigits(_)
TrimNonDigits(s) ==
    IF s = <<>> THEN s
    ELSE IF ~IsDigit(Head(s)) THEN TrimNonDigits(Tail(s))
    ELSE IF ~IsDigit(s[Len(s)]) THEN TrimNonDigits(SubSeq(s, 1, Len(s) - 1))
    ELSE s

DigitValue(c) == Ascii[c] - Ascii["0"]

\* str::parse::<u64>() as an Option: every character must be a digit and
\* there must be one (the model's tokens stay far below u64::MAX)
RECURSIVE ParseU64Acc(_, _)
ParseU64Acc(s, acc) ==
    IF s = <<>> THEN <<acc>>
    ELSE IF ~IsDigit(Head(s)) THEN <<>>
    ELSE ParseU64Acc(Tail(s), acc * 10 + DigitValue(Head(s)))

ParseU64(s) == IF s = <<>> THEN <<>> ELSE ParseU64Acc(s, 0)

DigitChar(d) == CHOOSE c \in DOMAIN Ascii : IsDigit(c) /\ DigitValue(c) = d

\* u64::to_string(): canonical decimal digits
RECURSIVE U64ToString(_)
U64ToString(n) ==
    IF n < 10 THEN <<DigitChar(n)>>
    ELSE U64ToString(n \div 10) \o <<DigitChar(n % 10)>>

\* str::split(pat).nth(1): the text between the first and the second
\* occurrence of pat, None when pat does not occur
RECURSIVE UpToPat(_, _)
UpToPat(s, pat) ==
    IF Len(s) < Len(pat) THEN s
    ELSE IF SubSeq(s, 1, Len(pat)) = pat THEN <<>>
    ELSE <<Head(s)>> \o UpToPat(Tail(s), pat)

RECURSIVE SplitNth1(_, _)
SplitNth1(s, pat) ==
    IF Len(s) < Len(pat) THEN <<>>
    ELSE IF SubSeq(s, 1, Len(pat)) = pat
         THEN <<UpToPat(SubSeq(s, Len(pat) + 1, Len(s)), pat)>>
         ELSE SplitNth1(Tail(s), pat)

----------------------------------------------------------------------------
(* The program's texts.                                                    *)

Restoring == <<"R", "e", "s", "t", "o", "r", "i", "n", "g">>
WellBlock == <<"W", "e", "l", "l", " ", "b", "l", "o", "c", "k">>
CatchAll  == <<"^", "/", ".", "*", "$">>
DotStar   == <<".", "*">>

----------------------------------------------------------------------------
(* process_and_display_files                                               *)

\* the `files` Vec after the loop over the lines
RECURSIVE CollectFiles(_)
CollectFiles(lines) ==
    IF lines = <<>> THEN <<>>
    ELSE LET line == Head(lines)
             path == Nth(SplitWhitespace(line), 1)
         IN  (IF Contains(line, Restoring) /\ path # <<>> THEN path ELSE <<>>)
             \o CollectFiles(Tail(lines))

\* what process_and_display_files prints, one path per line
process_and_display_files(output) == Dedup(SortStrings(CollectFiles(output)))

----------------------------------------------------------------------------
(* build_regex                                                             *)

RECURSIVE Patterns(_)
Patterns(ps) ==
    IF ps = <<>> THEN <<>>
    ELSE <<(<<"^", "/">> \o TrimStartMatches(Head(ps), "/") \o <<"$">>)>>
         \o Patterns(Tail(ps))

build_regex(ps) ==
    IF Len(ps) = 1 /\ ps[1] = DotStar
    THEN CatchAll
    ELSE Join(Patterns(ps), <<"|">>)

----------------------------------------------------------------------------
(* generate_roots: parsing and ordering of the discovery output            *)

\* the identifier a line yields, as an Option<u64>
ParseRootLine(line) ==
    IF ~Contains(line, WellBlock) THEN <<>>
    ELSE LET after == SplitNth1(line, WellBlock)
             token == IF after = <<>> THEN <<>>
                      ELSE Nth(SplitWhitespace(after[1]), 0)
         IN  IF token = <<>> THEN <<>> ELSE ParseU64(TrimNonDigits(token[1]))

\* `roots` as pushed, before the sort: the decimal strings, in line order
RECURSIVE ParseRoots(_)
ParseRoots(lines) ==
    IF lines = <<>> THEN <<>>
    ELSE LET r == ParseRootLine(Head(lines))
         IN  (IF r = <<>> THEN <<>> ELSE <<U64ToString(r[1])>>)
             \o ParseRoots(Tail(lines))

\* b.parse::<u64>().unwrap_or(0)
ParseOr0(s) == LET r == ParseU64(s) IN IF r = <<>> THEN 0 ELSE r[1]

\* the comparison the other way round: ascending
RECURSIVE InsertRoot_ascending(_, _)
InsertRoot_ascending(x, sorted) ==
    IF sorted = <<>> THEN <<x>>
    ELSE IF ParseOr0(x) < ParseOr0(Head(sorted))
         THEN <<x>> \o sorted
         ELSE <<Head(sorted)>> \o InsertRoot_ascending(x, Tail(sorted))

\* roots.sort_by(|a, b| parse(b).cmp(parse(a))): stable, descending
RECURSIVE InsertRoot(_, _)
InsertRoot(x, sorted) ==
    IF sorted = <<>> THEN <<x>>
    ELSE IF ParseOr0(x) > ParseOr0(Head(sorted))
         THEN <<x>> \o sorted
         ELSE <<Head(sorted)>> \o InsertRoot(x, Tail(sorted))

\* inserts from the front so that equal keys keep their input order
RECURSIVE SortRoots(_)
SortRoots(rs) ==
    IF rs = <<>> THEN <<>>
    ELSE InsertRoot(rs[Len(rs)], SortRoots(SubSeq(rs, 1, Len(rs) - 1)))

\* the Vec generate_roots returns for a discovery stdout
generate_roots(stdout) == SortRoots(ParseRoots(stdout))

----------------------------------------------------------------------------
(* Inputs: command line, environment, and what the external tools print.   *)

DevSdb == <<"/", "d", "e", "v", "/", "s", "d", "b">>

\* /etc/mtab lines: another device, the device itself, a partition of it
MtabOther == <<"/", "d", "e", "v", "/", "s", "d", "a", " ", "/">>
MtabSdb   == DevSdb \o <<" ", "/", "m", "n", "t">>
MtabSdb1  == DevSdb \o <<"1", " ", "/", "m", "n", "t">>

\* fs::read_to_string("/etc/mtab") as an Option of the file's lines
MtabSamples ==
    { <<>>, << <<MtabOther>> >>, << <<MtabOther, MtabSdb>> >>,
      << <<MtabSdb1>> >> }

PathA  == <<"/", "a">>
PathAB == <<"/", "a", "/", "b">>
PathC  == <<"/", "c">>
Star   == <<"*">>

\* args.paths in the orchestration runs
PathSamples == { <<>>, <<PathA, <<"b">> >> }

\* btrfs restore -v diagnostics (stderr), one text per line
DiagLines ==
    { Restoring \o <<" ">> \o PathAB,
      Restoring \o <<" ">> \o PathC,
      Restoring \o <<" ">> \o PathA \o <<" ", "x">>,
      <<"n", "o", "i", "s", "e", " ", "l", "i", "n", "e">>,
      Restoring,
      <<"x", " ">> \o Restoring \o <<" ">> \o PathC }

\* the stderr a listing invocation of the orchestration runs may produce
StderrSamples ==
    { <<>>,
      << Restoring \o <<" ">> \o PathC, Restoring \o <<" ">> \o PathAB,
         Restoring \o <<" ">> \o PathC >> }

\* btrfs-find-root stdout lines
DiscLines ==
    { WellBlock \o <<" ", "5", "(", "g", "e", "n", ":", " ", "7">>,
      WellBlock \o <<" ", "1", "0", "0", "(", "g", "e", "n", ":">>,
      WellBlock \o <<" ", "3">>,
      WellBlock \o <<" ", "(", "1", "x", "3", ")">>,
      <<"n", "o", "i", "s", "e", " ", "5">> }

RECURSIVE SeqsUpTo(_, _)
SeqsUpTo(S, n) ==
    IF n = 0 THEN { <<>> }
    ELSE LET shorter == SeqsUpTo(S, n - 1)
         IN  shorter \cup { Append(q, x) : q \in shorter, x \in S }

DiscOutputs == SeqsUpTo(DiscLines, MaxDiscLines)

\* what one recover-mode restore leaves in the output tree: zero-byte
\* placeholders and files with data
Writes == [zero : {0, 1}, data : {0, 1}]

----------------------------------------------------------------------------
(* State derived from the arguments.                                       *)

Mode  == IF list # <<>> THEN "list" ELSE IF dry_run THEN "dry" ELSE "recover"
Depth == IF list # <<>> THEN list[1] ELSE level

NoRoot == <<>>

\* one entry of the run's trace
Ev(op, root, target, flags, rx, status) ==
    [op |-> op, root |-> root, target |-> target, flags |-> flags,
     regex |-> rx, status |-> status]

Msg(op) == Ev(op, NoRoot, "", "", <<>>, "")

\* the dry run issued without -D, into the output directory
RestoreEv_no_dry_run(root, status) ==
    IF Mode = "list"
    THEN Ev("restore", root, "/", "-Divv", CatchAll, status)
    ELSE IF root = NoRoot
    THEN Ev("restore", root, "output", "-ivv", regex, status)
    ELSE Ev("restore", root, "output", "-x -m -ivv", regex, status)

\* the restore invocation the current mode issues for `root` (an Option)
RestoreEv(root, status) ==
    IF Mode = "list"
    THEN Ev("restore", root, "/", "-Divv", CatchAll, status)
    ELSE IF Mode = "dry"
    THEN Ev("restore", root, "/", "-Divv", regex, status)
    ELSE IF root = NoRoot
    THEN Ev("restore", root, "output", "-ivv", regex, status)
    ELSE Ev("restore", root, "output", "-x -m -ivv", regex, status)

\* bag of the numbers a Vec of decimal strings holds
RECURSIVE BagOfRoots(_)
BagOfRoots(rs) ==
    IF rs = <<>> THEN EmptyBag
    ELSE SetToBag({ParseOr0(Head(rs))}) (+) BagOfRoots(Tail(rs))

----------------------------------------------------------------------------
(* The run.                                                                *)

Init ==
    /\ isRoot \in BOOLEAN
    /\ deviceExists \in BOOLEAN
    /\ outKind \in {"missing", "file", "dir"}
    /\ mtab \in MtabSamples
    /\ device = DevSdb
    /\ list \in { <<>>, <<0>>, <<1>>, <<2>> }
    \* args.level is read by perform_recovery alone: with --list it keeps
    \* its default
    /\ level \in (IF list = <<>> THEN 0..2 ELSE {0})
    /\ dry_run \in BOOLEAN
    /\ paths \in PathSamples
    /\ pc = "check_root"
    /\ diagnostic = "none"
    /\ regex = <<>>
    /\ discovered = EmptyBag
    /\ roots = <<>>
    /\ idx = 1
    /\ log = <<>>
    /\ outDir0 = [zero |-> 1, data |-> 1]
    /\ outDir = outDir0
    /\ rootsFileExists \in BOOLEAN
    /\ rootsFile = <<>>
    /\ tmpFileExists \in BOOLEAN
    /\ stderr = <<>>
    /\ printed = <<>>

envVars  == <<isRoot, deviceExists, outKind, mtab, device, outDir0>>
argVars  == <<list, level, dry_run, paths>>
tempVars == <<rootsFileExists, rootsFile, tmpFileExists>>
listVars == <<stderr, printed>>
rootVars == <<discovered, roots, idx>>

\* exit(1) after the diagnostic
Exit1(msg) ==
    /\ pc' = "exit1"
    /\ diagnostic' = msg
    /\ UNCHANGED <<envVars, argVars, tempVars, listVars, rootVars, regex, log,
                   outDir>>

Goto(next) ==
    /\ pc' = next
    /\ UNCHANGED <<envVars, argVars, tempVars, listVars, rootVars, regex, log,
                   outDir, diagnostic>>

check_root ==
    /\ pc = "check_root"
    /\ IF ~isRoot THEN Exit1("not_root") ELSE Goto("check_device")

check_device ==
    /\ pc = "check_device"
    /\ IF ~deviceExists THEN Exit1("no_device") ELSE Goto("check_output_dir")

\* the directory test left out
check_output_dir_skipped ==
    /\ pc = "check_output_dir"
    /\ Goto("check_mount")

check_output_dir ==
    /\ pc = "check_output_dir"
    /\ IF outKind # "dir" THEN Exit1("no_directory") ELSE Goto("check_mount")

\* mtab.lines().any(|line| line.contains(device))
MtabNamesDevice ==
    \E i \in 1..Len(mtab[1]) : Contains(mtab[1][i], device)

\* a line has to equal the device, instead of containing it
check_mount_exact ==
    /\ pc = "check_mount"
    /\ IF mtab = <<>> THEN Goto("err")
       ELSE IF \E i \in 1..Len(mtab[1]) : mtab[1][i] = device
            THEN Exit1("mounted")
       ELSE Goto("dispatch")

check_mount ==
    /\ pc = "check_mount"
    /\ IF mtab = <<>> THEN Goto("err")
       ELSE IF MtabNamesDevice THEN Exit1("mounted")
       ELSE Goto("dispatch")

AfterDispatch == IF Depth = 0 THEN "direct" ELSE "generate_roots"

\* main's branch on args.list, and perform_recovery up to its depth test
dispatch ==
    /\ pc = "dispatch"
    /\ IF list # <<>> THEN Goto(AfterDispatch)
       ELSE IF paths = <<>> THEN Exit1("no_paths")
       ELSE /\ regex' = build_regex(paths)
            /\ pc' = AfterDispatch
            /\ UNCHANGED <<envVars, argVars, tempVars, listVars, rootVars, log,
                           outDir, diagnostic>>

\* how an external command can end: it ran and exited 0, it ran and exited
\* non-zero, or it could not be started or awaited (io::Error)
Outcomes == {"ok", "nonzero", "spawn_err"}

\* a non-zero exit status turned into an Err
debug_command_output_strict(st) == IF st = "ok" THEN "Ok" ELSE "Err"

\* debug_command_output: Err only when cmd.output() is; a non-zero exit
\* status is printed and Ok(()) returned
debug_command_output(st) == IF st = "spawn_err" THEN "Err" ELSE "Ok"

\* generate_roots' messages for the Vec it built
RootsMsgs(rs) == IF rs = <<>> THEN <<Msg("warn_no_roots")>> ELSE <<Msg("found_roots")>>

\* generate_roots, called by list_files, perform_dry_run and perform_recovery
discover ==
    /\ pc = "generate_roots"
    /\ \E st \in {"ran", "spawn_err"}, stdout \in DiscOutputs, written \in BOOLEAN :
         LET flags == IF Depth = 2 THEN "-a" ELSE ""
             rs    == generate_roots(stdout)
         IN  IF st = "spawn_err"
             THEN /\ log' = Append(log, Ev("find_root", NoRoot, "", flags, <<>>, st))
                  /\ pc' = "err"
                  /\ UNCHANGED <<rootVars, tempVars>>
             ELSE /\ log' = log \o <<Ev("find_root", NoRoot, "", flags, <<>>, st)>>
                              \o RootsMsgs(rs)
                              \o <<Ev("write_roots", NoRoot, "roots_file", "", <<>>,
                                      IF written THEN "ok" ELSE "io_err")>>
                  /\ discovered' = BagOfRoots(ParseRoots(stdout))
                  /\ IF written
                     THEN /\ roots' = rs
                          /\ rootsFileExists' = TRUE
                          /\ rootsFile' = rs
                          /\ pc' = "loop"
                          /\ UNCHANGED tmpFileExists
                     ELSE /\ pc' = "err"
                          /\ UNCHANGED <<roots, tempVars>>
                  /\ UNCHANGED idx
    /\ UNCHANGED <<envVars, argVars, listVars, regex, outDir, diagnostic>>

\* one listing invocation and process_and_display_files on its stderr
Listing(root, next) ==
    \E st \in Outcomes, out \in StderrSamples :
        IF st = "spawn_err"
        THEN /\ log' = Append(log, RestoreEv(root, st))
             /\ pc' = "err"
             /\ UNCHANGED <<listVars, idx>>
        ELSE /\ log' = Append(log, RestoreEv(root, st))
             /\ stderr' = out
             /\ printed' = process_and_display_files(out)
             /\ pc' = next
             /\ idx' = IF root = NoRoot THEN idx ELSE idx + 1

\* depth 0 of list_files and perform_dry_run
list_direct ==
    /\ pc = "direct"
    /\ Mode \in {"list", "dry"}
    /\ Listing(NoRoot, "cleanup")
    /\ UNCHANGED <<envVars, argVars, tempVars, discovered, roots, regex,
                   outDir, diagnostic>>

\* one iteration of the `for root in roots` loop of list_files and
\* perform_dry_run
list_root ==
    /\ pc = "loop"
    /\ Mode \in {"list", "dry"}
    /\ idx <= Len(roots)
    /\ Listing(<<roots[idx]>>, "loop")
    /\ UNCHANGED <<envVars, argVars, tempVars, discovered, roots, regex,
                   outDir, diagnostic>>

\* the loop of list_files and perform_dry_run is over
list_done ==
    /\ pc = "loop"
    /\ Mode \in {"list", "dry"}
    /\ idx > Len(roots)
    /\ Goto("cleanup")

\* the output tree after a recover-mode restore: one that ran wrote w
\* into it, one that could not be started wrote nothing
Written(st, w) ==
    IF st = "spawn_err" THEN outDir
    ELSE [zero |-> outDir.zero + w.zero, data |-> outDir.data + w.data]

\* find <dir> -empty -type f -delete
Cleaned(dir) == [zero |-> 0, data |-> dir.data]

\* depth 0 of perform_recovery: debug_command_output(&mut cmd)?
recover_direct ==
    /\ pc = "direct"
    /\ Mode = "recover"
    /\ \E st \in Outcomes, w \in Writes :
         /\ log' = Append(log, RestoreEv(NoRoot, st))
         /\ IF debug_command_output(st) = "Err"
            THEN pc' = "err" /\ UNCHANGED outDir
            ELSE pc' = "final_clean" /\ outDir' = Written(st, w)
    /\ UNCHANGED <<envVars, argVars, tempVars, listVars, rootVars, regex,
                   diagnostic>>

\* the early return left out: the empty loop, then cleaner and summary
recover_no_roots_falls_through ==
    /\ pc = "loop"
    /\ Mode = "recover"
    /\ roots = <<>>
    /\ log' = Append(log, Msg("err_no_roots"))
    /\ pc' = "final_clean"
    /\ UNCHANGED <<envVars, argVars, tempVars, listVars, rootVars, regex,
                   outDir, diagnostic>>

\* perform_recovery: roots.is_empty() after generate_roots
recover_no_roots ==
    /\ pc = "loop"
    /\ Mode = "recover"
    /\ roots = <<>>
    /\ log' = Append(log, Msg("err_no_roots"))
    /\ pc' = "cleanup"
    /\ UNCHANGED <<envVars, argVars, tempVars, listVars, rootVars, regex,
                   outDir, diagnostic>>

\* the `continue` left out: the cleaner runs after a failed invocation too
AfterRestore_always_cleans(st, cleaner) ==
    IF debug_command_output(st) = "Err"
    THEN <<Msg("warn_root"), Ev("clean", NoRoot, "output", "", <<>>, cleaner)>>
    ELSE <<Ev("clean", NoRoot, "output", "", <<>>, cleaner)>>

\* what follows debug_command_output in the loop body: the warning and
\* `continue` on Err, remove_empty_files(output_dir)? otherwise
AfterRestore(st, cleaner) ==
    IF debug_command_output(st) = "Err" THEN <<Msg("warn_root")>>
    ELSE <<Ev("clean", NoRoot, "output", "", <<>>, cleaner)>>

\* one iteration of perform_recovery's `for root in roots` loop
recover_root ==
    /\ pc = "loop"
    /\ Mode = "recover"
    /\ roots # <<>>
    /\ idx <= Len(roots)
    /\ \E st \in Outcomes, w \in Writes, cleaner \in {"ran", "spawn_err"} :
         /\ log' = log \o <<RestoreEv(<<roots[idx]>>, st)>> \o AfterRestore(st, cleaner)
         /\ IF debug_command_output(st) = "Err"
            THEN /\ pc' = "loop"
                 /\ idx' = idx + 1
                 /\ UNCHANGED outDir
            ELSE IF cleaner = "spawn_err"
            THEN /\ pc' = "err"
                 /\ outDir' = Written(st, w)
                 /\ UNCHANGED idx
            ELSE /\ pc' = "loop"
                 /\ idx' = idx + 1
                 /\ outDir' = Cleaned(Written(st, w))
    /\ UNCHANGED <<envVars, argVars, tempVars, listVars, discovered, roots,
                   regex, diagnostic>>

\* perform_recovery's loop is over
recover_done ==
    /\ pc = "loop"
    /\ Mode = "recover"
    /\ roots # <<>>
    /\ idx > Len(roots)
    /\ Goto("final_clean")

\* perform_recovery: remove_empty_files(output_dir)? after the branches
final_clean ==
    /\ pc = "final_clean"
    /\ \E cleaner \in {"ran", "spawn_err"} :
         /\ log' = Append(log, Ev("clean", NoRoot, "output", "", <<>>, cleaner))
         /\ IF cleaner = "spawn_err"
            THEN pc' = "err" /\ UNCHANGED outDir
            ELSE pc' = "summary" /\ outDir' = Cleaned(outDir)
    /\ UNCHANGED <<envVars, argVars, tempVars, listVars, rootVars, regex,
                   diagnostic>>

\* the summary printed for the tree: files.len() of find ! -empty -type f
SummaryEv(dir) ==
    Ev("summary", NoRoot, "output", "", <<>>, "ran") @@ [count |-> dir.data]

\* print_recovery_summary: the count of non-empty regular files
print_recovery_summary ==
    /\ pc = "summary"
    /\ \E st \in {"ran", "spawn_err"} :
         /\ log' = Append(log, IF st = "spawn_err"
                                THEN Ev("summary", NoRoot, "output", "", <<>>, st)
                                ELSE SummaryEv(outDir))
         /\ pc' = IF st = "spawn_err" THEN "err" ELSE "cleanup"
    /\ UNCHANGED <<envVars, argVars, tempVars, listVars, rootVars, regex,
                   outDir, diagnostic>>

\* main's cleanup of the two temp files, then Ok(())
cleanup ==
    /\ pc = "cleanup"
    /\ rootsFileExists' = FALSE
    /\ tmpFileExists' = FALSE
    /\ pc' = "done"
    /\ UNCHANGED <<envVars, argVars, listVars, rootVars, regex, log, outDir,
                   diagnostic, rootsFile>>

Next ==
    \/ check_root
    \/ check_device
    \/ check_output_dir
    \/ check_mount
    \/ dispatch
    \/ discover
    \/ list_direct
    \/ list_root
    \/ list_done
    \/ recover_direct
    \/ recover_no_roots
    \/ recover_root
    \/ recover_done
    \/ final_clean
    \/ print_recovery_summary
    \/ cleanup

Spec == Init /\ [][Next]_vars

----------------------------------------------------------------------------
(* process_and_display_files and build_regex on their own inputs.          *)

Idle ==
    /\ isRoot = TRUE
    /\ deviceExists = TRUE
    /\ outKind = "dir"
    /\ mtab = << <<MtabOther>> >>
    /\ device = DevSdb
    /\ list = <<>>
    /\ level = 0
    /\ dry_run = FALSE
    /\ diagnostic = "none"
    /\ discovered = EmptyBag
    /\ roots = <<>>
    /\ idx = 1
    /\ log = <<>>
    /\ outDir0 = [zero |-> 0, data |-> 0]
    /\ outDir = outDir0
    /\ rootsFileExists = FALSE
    /\ rootsFile = <<>>
    /\ tmpFileExists = FALSE

DiagOutputs == SeqsUpTo(DiagLines, MaxDiagLines)

InitExtract ==
    /\ Idle
    /\ paths = <<>>
    /\ regex = <<>>
    /\ pc = "extract"
    /\ stderr \in DiagOutputs
    /\ printed = <<>>

display_files ==
    /\ pc = "extract"
    /\ printed' = process_and_display_files(stderr)
    /\ pc' = "extracted"
    /\ UNCHANGED <<envVars, argVars, tempVars, rootVars, regex, log, outDir,
                   diagnostic, stderr>>

SpecExtract == InitExtract /\ [][display_files]_vars

\* path arguments: the documented all-files pattern, a bare star, paths
\* with one, no and two leading separators, the separator alone
RegexPaths ==
    { DotStar, Star, PathA, <<"a", "/", "b">>, <<"/", "/", "c">>, <<"/">> }

InitRegex ==
    /\ Idle
    /\ paths \in SeqsUpTo(RegexPaths, MaxPaths)
    /\ regex = <<>>
    /\ pc = "regex"
    /\ stderr = <<>>
    /\ printed = <<>>

regex_step ==
    /\ pc = "regex"
    /\ regex' = build_regex(paths)
    /\ pc' = "regex_built"
    /\ UNCHANGED <<envVars, argVars, tempVars, listVars, rootVars, log, outDir,
                   diagnostic>>

SpecRegex == InitRegex /\ [][regex_step]_vars

----------------------------------------------------------------------------
(* Vocabulary of the properties.                                           *)

ToSet(seq) == { seq[i] : i \in 1..Len(seq) }

IsRestore(e) == e.op = "restore"
IsClean(e)   == e.op = "clean"

\* positions of the trace holding an entry of kind op
Positions(op) == { i \in 1..Len(log) : log[i].op = op }

\* the restore invocations issued so far, in order
Restores == SelectSeq(log, IsRestore)

\* the four preconditions of section 6, as the environment has them
Mounted == mtab # <<>> /\ MtabNamesDevice
Preconditions ==
    isRoot /\ deviceExists /\ outKind = "dir" /\ mtab # <<>> /\ ~MtabNamesDevice

\* main returned Ok(()) (or is about to delete the temp files and do so)
Completed == pc \in {"cleanup", "done"}

\* generate_roots returned Ok(roots): the roots file was written
DiscoveryReturned ==
    \E i \in Positions("write_roots") : log[i].status = "ok"

\* the invocations that could not be started or awaited
FailedRestores == { i \in Positions("restore") : log[i].status = "spawn_err" }

----------------------------------------------------------------------------
(* C1: in a depth>0 run, in every mode, the failure of one root's restore  *)
(* invocation does not stop the run and is not propagated as a             *)
(* process-level error.  Stated on the trace: main never returns Err with  *)
(* a failed per-root restore invocation as the last thing it did.          *)
C1_RootFailureNeverPropagates ==
    ~( /\ pc = "err"
       /\ log # <<>>
       /\ log[Len(log)].op = "restore"
       /\ log[Len(log)].root # NoRoot
       /\ log[Len(log)].status = "spawn_err" )

----------------------------------------------------------------------------
(* C2, as claimed: with the device mounted and the output directory        *)
(* invalid (privilege and device checks passing) the run fails with the    *)
(* "mounted" diagnostic.                                                   *)
C2_MountedDiagnosticWins ==
    (isRoot /\ deviceExists /\ outKind # "dir" /\ Mounted /\ pc = "exit1")
        => diagnostic = "mounted"

\* the diagnostic of the first failing check, in main's order
FirstFailing ==
    IF ~isRoot THEN "not_root"
    ELSE IF ~deviceExists THEN "no_device"
    ELSE IF outKind # "dir" THEN "no_directory"
    ELSE "mounted"

(* C2, amended: the checks run in the fixed order privilege, device,       *)
(* output directory, mount table, and the first failing one decides the    *)
(* diagnostic; a mounted device with an invalid output directory fails     *)
(* with the "Directory ... doesn't exist" diagnostic, and the mount table  *)
(* is not looked at.                                                       *)
C2_FirstFailingCheckWins ==
    /\ (pc = "exit1" /\ diagnostic # "no_paths") => diagnostic = FirstFailing
    /\ (isRoot /\ deviceExists /\ outKind # "dir" /\ Mounted)
           => /\ pc \in {"check_root", "check_device", "check_output_dir", "exit1"}
              /\ pc = "exit1" => diagnostic = "no_directory"

C2_Witness ==
    /\ isRoot /\ deviceExists /\ outKind # "dir" /\ Mounted
    /\ pc = "exit1"
    /\ diagnostic = "no_directory"

----------------------------------------------------------------------------
\* something beyond the checks has happened: an external invocation, a
\* cleaner run, a temp-file write, or main has moved past check_mount
Acted ==
    \/ log # <<>>
    \/ outDir # outDir0
    \/ rootsFile # <<>>
    \/ pc \in {"dispatch", "direct", "generate_roots", "loop", "final_clean",
               "summary", "cleanup", "done"}

(* C3: no discovery or restore invocation, no cleaner run and no temp-file *)
(* write happens unless all four preconditions have passed; when one fails *)
(* the process ends with exit code 1 (exit(1), or main's Err when the      *)
(* mount table cannot be read) before any such action.                     *)
C3_NothingBeforePreconditions ==
    /\ Acted => Preconditions
    /\ ~Preconditions =>
          /\ pc \in {"check_root", "check_device", "check_output_dir",
                     "check_mount", "exit1", "err"}
          /\ pc = "err" => mtab = <<>>
          /\ pc = "exit1" => diagnostic = FirstFailing
          /\ log = <<>> /\ outDir = outDir0 /\ rootsFile = <<>>

C3_Witness ==
    /\ ~Preconditions
    /\ pc = "exit1"
    /\ diagnostic = "mounted"
    /\ log = <<>>

----------------------------------------------------------------------------
(* C4: with --list, or with --dry-run and no --list, the output directory  *)
(* is left unchanged at every depth: every restore invocation is a -D      *)
(* listing against "/", the cleaner and the summary never run; with --list *)
(* the listing uses the catch-all pattern whatever -p and -n say.          *)
C4_ListAndDryRunLeaveOutput ==
    (list # <<>> \/ dry_run) =>
        /\ outDir = outDir0
        /\ \A i \in 1..Len(log) :
              /\ log[i].op \notin {"clean", "summary"}
              /\ log[i].target # "output"
              /\ IsRestore(log[i]) =>
                    /\ log[i].target = "/"
                    /\ log[i].flags = "-Divv"
                    /\ list # <<>> => log[i].regex = CatchAll

C4_Witness ==
    /\ list # <<>> /\ dry_run /\ paths # <<>>
    /\ pc = "done"
    /\ Len(Restores) = 3

----------------------------------------------------------------------------
----------------------------------------------------------------------------
\* a recover-mode run over discovered roots
RecoverOverRoots == Mode = "recover" /\ Depth > 0 /\ DiscoveryReturned

\* cleaner runs so far
CleanerRuns == Cardinality(Positions("clean"))

(* C6, as claimed: a completed depth>0 recover run over n roots with k     *)
(* failed invocations runs the cleaner exactly (n - k) + 1 times.          *)
C6_CleanerCountEveryRun ==
    (RecoverOverRoots /\ Completed) =>
        CleanerRuns = (Len(roots) - Cardinality(FailedRestores)) + 1

(* C6, amended: in recover mode the cleaner runs right after every restore *)
(* invocation of the depth>0 loop that could be started, never after one   *)
(* that could not, once more after a loop over at least one root, and once *)
(* after the depth 0 invocation: a completed run over n >= 1 roots with k  *)
(* failed invocations runs it (n - k) + 1 times, and the summary follows   *)
(* the last cleaner run.  Over no roots the cleaner and the summary do not *)
(* run at all.                                                             *)
C6_CleanerAfterEachSuccess ==
    Mode = "recover" =>
        /\ \A i \in Positions("restore") :
              log[i].root # NoRoot =>
                  /\ i < Len(log)
                  /\ IsClean(log[i + 1]) <=> log[i].status # "spawn_err"
        /\ \A i \in Positions("summary") :
              /\ i > 1 /\ IsClean(log[i - 1])
              /\ \A j \in Positions("clean") : j < i
        /\ (RecoverOverRoots /\ Completed /\ roots # <<>>) =>
              /\ CleanerRuns = (Len(roots) - Cardinality(FailedRestores)) + 1
              /\ log[Len(log)].op = "summary"
        /\ (RecoverOverRoots /\ Completed /\ roots = <<>>) =>
              /\ CleanerRuns = 0
              /\ Positions("summary") = {}
        /\ (Depth = 0 /\ Completed) =>
              /\ CleanerRuns = 1
              /\ log[Len(log)].op = "summary"
        /\ \A i \in Positions("summary") :
              log[i].status = "ran" => log[i].count = outDir.data /\ outDir.zero = 0

C6_Witness ==
    /\ RecoverOverRoots
    /\ pc = "done"
    /\ Len(roots) = 3
    /\ Cardinality(FailedRestores) = 1
    /\ CleanerRuns = 3

----------------------------------------------------------------------------
\* the lines of the diagnostic output that yield a path
Relevant(lines) ==
    { i \in 1..Len(lines) :
        Contains(lines[i], Restoring) /\ Len(SplitWhitespace(lines[i])) >= 2 }

StrictlyIncreasing(files) ==
    \A i \in 1..(Len(files) - 1) : StrLess(files[i], files[i + 1])

(* C7: what process_and_display_files prints is exactly the set of second  *)
(* whitespace-delimited tokens of the lines containing "Restoring", in     *)
(* strictly increasing byte-wise order, so without duplicates; lines       *)
(* without the marker contribute nothing; sorting and deduplicating the    *)
(* output again leaves it unchanged; the lines "Restoring /a/b",           *)
(* "Restoring /a/b", "Restoring /c", "noise line" give [/a/b, /c].         *)
C7_ExtractPathsSortedSet ==
    pc = "extracted" =>
        /\ ToSet(printed) =
              { SplitWhitespace(stderr[i])[2] : i \in Relevant(stderr) }
        /\ StrictlyIncreasing(printed)
        /\ Dedup(SortStrings(printed)) = printed
        /\ (\A i \in 1..Len(stderr) : ~Contains(stderr[i], Restoring))
              => printed = <<>>
        /\ ToSet(stderr) = { Restoring \o <<" ">> \o PathAB,
                             Restoring \o <<" ">> \o PathC,
                             <<"n", "o", "i", "s", "e", " ", "l", "i", "n", "e">> }
              => printed = <<PathAB, PathC>>

C7_Witness ==
    /\ pc = "extracted"
    /\ stderr = << Restoring \o <<" ">> \o PathC,
                   <<"n", "o", "i", "s", "e", " ", "l", "i", "n", "e">>,
                   Restoring \o <<" ">> \o PathAB >>
    /\ printed = <<PathAB, PathC>>

----------------------------------------------------------------------------
\* the pieces of s between the occurrences of the character sep
RECURSIVE Pieces(_, _, _)
Pieces(s, sep, cur) ==
    IF s = <<>> THEN <<cur>>
    ELSE IF Head(s) = sep THEN <<cur>> \o Pieces(Tail(s), sep, <<>>)
    ELSE Pieces(Tail(s), sep, Append(cur, Head(s)))

\* b is the branch of path p: ^/ then p without its leading separators, then $
IsBranchOf(b, p) ==
    /\ Len(b) >= 3
    /\ b[1] = "^" /\ b[2] = "/" /\ b[Len(b)] = "$"
    /\ LET body == SubSeq(b, 3, Len(b) - 1)
       IN  /\ body = <<>> \/ body[1] # "/"
           /\ \E k \in 0..Len(p) :
                 /\ \A j \in 1..k : p[j] = "/"
                 /\ SubSeq(p, k + 1, Len(p)) = body

(* C8, as claimed: the one-element list holding the wildcard token * gives *)
(* exactly ^/.*$.                                                          *)
C8_StarGivesCatchAll ==
    (pc = "regex_built" /\ paths = <<Star>>) => regex = CatchAll

(* C8, amended: the wildcard token is .* : the one-element list holding .* *)
(* gives exactly ^/.*$; every other list (the one holding * included,      *)
(* which gives ^/*$) gives the |-joined alternation with one branch per    *)
(* input, in input order, each branch ^/ followed by the path without its  *)
(* leading separators followed by $.                                       *)
C8_BuildRegexBranches ==
    pc = "regex_built" =>
        /\ paths = <<DotStar>> => regex = CatchAll
        /\ paths = <<Star>> => regex = <<"^", "/", "*", "$">>
        /\ paths = <<>> => regex = <<>>
        /\ paths # <<>> =>
              LET branches == Pieces(regex, "|", <<>>)
              IN  /\ Len(branches) = Len(paths)
                  /\ \A i \in 1..Len(paths) : IsBranchOf(branches[i], paths[i])

C8_Witness ==
    /\ pc = "regex_built"
    /\ paths = <<PathA, <<"/", "/", "c">>, DotStar>>
    /\ regex = <<"^", "/", "a", "$", "|", "^", "/", "c", "$", "|",
                 "^", "/", ".", "*", "$">>

----------------------------------------------------------------------------
\* the root identifiers handed to the restore invocations, in order
RECURSIVE RootsOf(_)
RootsOf(evs) ==
    IF evs = <<>> THEN <<>>
    ELSE (IF Head(evs).root = NoRoot THEN <<>> ELSE <<ParseOr0(Head(evs).root[1])>>)
         \o RootsOf(Tail(evs))

RECURSIVE BagOfNumbers(_)
BagOfNumbers(ns) ==
    IF ns = <<>> THEN EmptyBag
    ELSE SetToBag({Head(ns)}) (+) BagOfNumbers(Tail(ns))

Descending(ns) == \A i \in 1..(Len(ns) - 1) : ns[i] >= ns[i + 1]

(* C9: in a completed depth>0 run where no invocation failed, the roots    *)
(* handed to the restore invocations are exactly the multiset of           *)
(* identifiers parsed from the "Well block" lines, in descending numeric   *)
(* order, one invocation per occurrence ({5, 100, 3} gives [100, 5, 3]);   *)
(* the roots file holds the same list; at depth 0 discovery is never       *)
(* invoked and exactly one restore invocation, without a root, is issued.  *)
C9_RootsDescendingOnceEach ==
    /\ (Depth > 0 /\ Completed /\ FailedRestores = {}) =>
          /\ Len(Restores) = Len(RootsOf(Restores))
          /\ Descending(RootsOf(Restores))
          /\ BagOfNumbers(RootsOf(Restores)) = discovered
          /\ Cardinality(Positions("find_root")) = 1
          /\ RootsOf(Restores)
                = [i \in 1..Len(rootsFile) |-> ParseOr0(rootsFile[i])]
    /\ Depth = 0 =>
          /\ Positions("find_root") = {}
          /\ Len(Restores) <= 1
          /\ RootsOf(Restores) = <<>>
          /\ Completed => Len(Restores) = 1

C9_Witness ==
    /\ Depth > 0 /\ pc = "done" /\ FailedRestores = {}
    /\ discovered = SetToBag({5, 100, 3})
    /\ RootsOf(Restores) = <<100, 5, 3>>

----------------------------------------------------------------------------
====
